---- MODULE Spec2Model ----
(***************************************************************************)
(* VoiceTranscribeService (CipherTalk): transcript cache, model files,     *)
(* single-flight model download and worker-based transcription; with it    *)
(* AssistantReportService and the streaming of BaseAIProvider.             *)
(*                                                                         *)
(* The host process is single threaded: one action is one run of           *)
(* synchronous code up to the next suspension point, together with the     *)
(* promise continuations (microtasks) that run before the next event.      *)
(*                                                                         *)
(* SpecTranscribe: transcribeWithCache calls, their workers and the cache; *)
(*   the model directory is an input, changed by clearModel and by the     *)
(*   configured model type.                                                *)
(* SpecDownload: downloadModel calls and their transfers, interleaved with *)
(*   clearModel and changes of the configured model type.                  *)
(* SpecProtocol: transcribeWithCache calls whose worker keeps the message  *)
(*   protocol (partial messages, then one final or error message).         *)
(* SpecStore: getModelStatus and clearModel over every content of the      *)
(*   model directory.                                                      *)
(* SpecCache: direct cache calls and one transcribeWithCache call over a   *)
(*   store that may hold rows of earlier runs.                             *)
(* SpecTransfer: one downloadToFile call against every server behaviour.   *)
(* SpecFaults: the public operations one after the other, every step of    *)
(*   which can fail.                                                       *)
(* SpecProgress: downloadModel calls with the progress reports of their    *)
(*   transfers, interleaved with clearModel.                               *)
(* SpecInstall: getModelStatus and a transcribeWithCache call at any       *)
(*   moment of a download.                                                 *)
(* SpecReports: AssistantReportService, its timer tick, runNow and the     *)
(*   stored schedule.                                                      *)
(* SpecStream: one BaseAIProvider.streamChat call over every stream.       *)
(***************************************************************************)
EXTENDS Naturals, Sequences, FiniteSets

VARIABLES
    sttModelType,      \* configService.get('sttModelType')
    dirExists,         \* the model directory exists
    fileState,         \* file name -> "absent" | "partial" | "complete"
    downloadTasks,     \* the in-flight registry: its entry under 'sensevoice', 0 = no entry
    tasks,             \* task id -> the download task (the promise of the async function)
    dlCalls,           \* the downloadModel calls made so far, in call order
    cacheDb,           \* TRUE: the cache store is open, FALSE: this.cacheDb = null
    transcript_cache,  \* the rows of table transcript_cache
    saved,             \* history: pair -> the last non-empty transcript given to saveTranscriptCache
    cacheOp,           \* the last direct getCachedTranscript or saveTranscriptCache call
    calls,             \* call id -> the transcribeWithCache call, its promise and its worker
    okText,            \* pairs for which a call returned success with a non-empty transcript
    okEmpty,           \* pairs for which a call returned success with an empty transcript
    storeOp,           \* the last getModelStatus or clearModel call and what it returned
    storeSeen,         \* history: the state that call was made in and the directory it left
    xfer,              \* one downloadToFile call: its requests, its response and its promise
    progress,          \* the last DownloadProgress given to an onProgress callback
    notified,          \* the downloadModel calls whose onProgress callback was invoked
    assistantSchedule, \* AssistantReportService: configService.get('assistantSchedule')
    running,           \* AssistantReportService: this.running
    runs,              \* the runNow calls and the ticks that called generateAndSaveReport, in order
    today,             \* the calendar day of the clock
    chat               \* one BaseAIProvider.streamChat call and the chunks it emitted

vars == <<sttModelType, dirExists, fileState, downloadTasks, tasks, dlCalls,
          cacheDb, transcript_cache, saved, cacheOp, calls, okText, okEmpty, storeOp, storeSeen, xfer,
          progress, notified, assistantSchedule, running, runs, today, chat>>

modelVars == <<sttModelType, dirExists, fileState>>
downloadVars == <<downloadTasks, tasks, dlCalls>>
cacheVars == <<cacheDb, transcript_cache, saved, cacheOp>>
callVars == <<calls, okText, okEmpty>>
progressVars == <<progress, notified>>
reportVars == <<assistantSchedule, running, runs, today>>
soloVars == <<storeOp, storeSeen, xfer, progress, notified, reportVars, chat>>

----------------------------------------------------------------------------
\* Bounds of the model.

MaxPartials == 1    \* partial messages one worker emits
MaxTasks == 2       \* download tasks created in one behaviour
MaxDlCalls == 3     \* downloadModel calls in one behaviour
MaxStream == 2      \* partial messages of one worker that keeps the message protocol
MaxChunks == 3      \* 'data' events of one response
MaxRuns == 2        \* report generations asked for in one behaviour
MaxDays == 2        \* calendar days of one behaviour
MaxDeltas == 4      \* chunks of one chat completion stream

\* Line 482: remainingRedirects = 5
DefaultRedirects == 5

\* Inputs.
CallIds == { 1, 2 }   \* the transcribeWithCache calls of one behaviour, in call order
SessionIds == { <<"s">>, <<"s", ":", "1">> }
CreateTimes == { 11 }
Pairs == SessionIds \X CreateTimes   \* the (sessionId, createTime) pairs of the cache
Transcripts == { "", "A", "B" }
ExitCodes == { 0, 1 }
ChunkLengths == { 1, 2 }   \* chunk.length of a 'data' event

Undefined == "undefined"

----------------------------------------------------------------------------
\* Model catalogue.

ModelTypes == { "int8", "float32" }

\* Byte counts are in units of 1 000 000 bytes: sizeBytes 235_000_000 and 920_000_000.
SENSEVOICE_MODELS ==
    [ int8    |-> [ model |-> "model.int8.onnx", tokens |-> "tokens.txt", sizeBytes |-> 235 ],
      float32 |-> [ model |-> "model.onnx",      tokens |-> "tokens.txt", sizeBytes |-> 920 ] ]

Files == { "model.int8.onnx", "model.onnx", "tokens.txt" }

getCurrentModel == SENSEVOICE_MODELS[sttModelType]

existsSync(f) == fileState[f] # "absent"

NoFiles == [ f \in Files |-> "absent" ]

----------------------------------------------------------------------------
\* Transcript cache.

Digit(d) == CASE d = 0 -> "0" [] d = 1 -> "1" [] d = 2 -> "2" [] d = 3 -> "3"
              [] d = 4 -> "4" [] d = 5 -> "5" [] d = 6 -> "6" [] d = 7 -> "7"
              [] d = 8 -> "8" [] d = 9 -> "9"

RECURSIVE NumberToString(_)
NumberToString(n) ==
    IF n < 10 THEN << Digit(n) >>
    ELSE NumberToString(n \div 10) \o << Digit(n % 10) >>

\* `${sessionId}:${createTime}`
getCacheKey(sessionId, createTime) ==
    sessionId \o << ":" >> \o NumberToString(createTime)

\* JavaScript truthiness of a string | null | undefined value.
Truthy(s) == s # Undefined /\ s # ""

\* SELECT transcript FROM transcript_cache WHERE cache_key = ?
SelectTranscript(cacheKey) ==
    { r.transcript : r \in { x \in transcript_cache : x.cache_key = cacheKey } }

\* Faulty variant: the lookup never finds a row.
getCachedTranscript_miss(sessionId, createTime) == Undefined

\* Faulty variant: the table is read whether or not the store was opened.
getCachedTranscript_noDbCheck(sessionId, createTime) ==
    LET found == SelectTranscript(getCacheKey(sessionId, createTime))
    IN  IF found # {} THEN CHOOSE t \in found : TRUE ELSE Undefined

getCachedTranscript(sessionId, createTime) ==
    IF ~cacheDb THEN Undefined
    ELSE LET found == SelectTranscript(getCacheKey(sessionId, createTime))
         IN  IF found # {} THEN CHOOSE t \in found : TRUE ELSE Undefined

\* VALUES (cacheKey, sessionId, createTime, transcript, Date.now())
Row(sessionId, createTime, transcript) ==
    [ cache_key |-> getCacheKey(sessionId, createTime), session_id |-> sessionId,
      create_time |-> createTime, transcript |-> transcript ]

\* Faulty variant: INSERT without REPLACE and without a primary key.
saveTranscriptCache_append(sessionId, createTime, transcript) ==
    IF ~cacheDb \/ ~Truthy(transcript) THEN transcript_cache
    ELSE transcript_cache \cup { Row(sessionId, createTime, transcript) }

\* Faulty variant: INSERT OR IGNORE, the row already there is kept.
saveTranscriptCache_keepOld(sessionId, createTime, transcript) ==
    IF ~cacheDb \/ ~Truthy(transcript) THEN transcript_cache
    ELSE IF SelectTranscript(getCacheKey(sessionId, createTime)) # { } THEN transcript_cache
    ELSE transcript_cache \cup { Row(sessionId, createTime, transcript) }

\* Faulty variant: the row is never written.
saveTranscriptCache_dropped(sessionId, createTime, transcript) == transcript_cache

\* INSERT OR REPLACE: the row with the same primary key is deleted first.
\* The value of the table after saveTranscriptCache.
saveTranscriptCache(sessionId, createTime, transcript) ==
    IF ~cacheDb \/ ~Truthy(transcript) THEN transcript_cache
    ELSE LET cacheKey == getCacheKey(sessionId, createTime)
         IN  { r \in transcript_cache : r.cache_key # cacheKey }
               \cup { Row(sessionId, createTime, transcript) }

\* History: saveTranscriptCache was called with these arguments.
noteSave(sessionId, createTime, transcript) ==
    IF Truthy(transcript)
      THEN [ saved EXCEPT ![<< sessionId, createTime >>] = transcript ]
      ELSE saved

NoCacheOp ==
    [ op |-> "none",             \* none | getCachedTranscript | saveTranscriptCache
      sessionId |-> << >>, createTime |-> 0,
      transcript |-> Undefined,  \* the transcript argument of saveTranscriptCache
      result |-> Undefined ]     \* what getCachedTranscript returned, Undefined for null

\* getCachedTranscript(sessionId, createTime), called by the UI layer.
GetCachedTranscript(sessionId, createTime) ==
    /\ cacheOp' = [ NoCacheOp EXCEPT !.op = "getCachedTranscript",
                                     !.sessionId = sessionId, !.createTime = createTime,
                                     !.result = getCachedTranscript(sessionId, createTime) ]
    /\ UNCHANGED << cacheDb, transcript_cache, saved, modelVars, downloadVars, callVars, soloVars >>

\* saveTranscriptCache(sessionId, createTime, transcript), called directly.
SaveTranscriptCache(sessionId, createTime, transcript) ==
    /\ transcript_cache' = saveTranscriptCache(sessionId, createTime, transcript)
    /\ saved' = noteSave(sessionId, createTime, transcript)
    /\ cacheOp' = [ NoCacheOp EXCEPT !.op = "saveTranscriptCache",
                                     !.sessionId = sessionId, !.createTime = createTime,
                                     !.transcript = transcript ]
    /\ UNCHANGED << cacheDb, modelVars, downloadVars, callVars, soloVars >>

----------------------------------------------------------------------------
\* Model store.

\* The states the model directory can be in when the service starts.
InitFileStates ==
    { fs \in [ Files -> { "absent", "complete" } ] :
        fs["model.onnx"] = "absent" }

\* configService.set('sttModelType', v), done by the settings page.
SetModelType(v) ==
    /\ v # sttModelType
    /\ sttModelType' = v
    /\ UNCHANGED << dirExists, fileState, downloadVars, cacheVars, callVars, soloVars >>

\* clearModel: unlink the three model files, then remove the directory when
\* it is empty. `emptied`: readdirSync finds nothing else and rmdirSync succeeds.
clearModelFiles == [ f \in Files |-> "absent" ]

\* Lines 200-204: filesToClean, in the order of the unlink loop.
filesToClean == << SENSEVOICE_MODELS["int8"].model, SENSEVOICE_MODELS["int8"].tokens,
                   SENSEVOICE_MODELS["float32"].model >>

\* for (file of order) if (existsSync(file)) unlinkSync(file)
\* `failAt`: the file whose unlinkSync throws, or "none". The files before it
\* in the order are gone when the exception leaves the loop.
unlinkEach(files, order, failAt) ==
    LET throwsAt == { k \in 1 .. Len(order) : order[k] = failAt /\ files[order[k]] # "absent" }
        stop == IF throwsAt = { } THEN Len(order) + 1 ELSE CHOOSE k \in throwsAt : TRUE
    IN  [ files |-> [ f \in Files |->
                        IF \E k \in 1 .. stop - 1 : order[k] = f THEN "absent" ELSE files[f] ],
          threw |-> throwsAt # { } ]

\* clearModel called while other operations run: no unlink fails and the
\* result is not looked at.
ClearModel(emptied) ==
    /\ IF ~dirExists
         THEN UNCHANGED << dirExists, fileState >>
         ELSE /\ fileState' = clearModelFiles
              /\ dirExists' = ~emptied
    /\ UNCHANGED << sttModelType, downloadVars, cacheVars, callVars, soloVars >>

\* statSync(path).size: a complete file has all its bytes, a file still
\* being written has its first byte.
FileBytes == [ f \in Files |->
                 CASE f = "model.int8.onnx" -> 3 [] f = "model.onnx" -> 5 [] f = "tokens.txt" -> 2 ]

statSize(f) == IF fileState[f] = "complete" THEN FileBytes[f] ELSE 1

\* What a call sees: the configured model type and the model directory.
Seen == [ type |-> sttModelType, dir |-> dirExists, files |-> fileState ]

NothingSeen ==
    [ seen |-> [ type |-> "int8", dir |-> FALSE, files |-> NoFiles ], after |-> NoFiles ]

\* A step of a store operation whose history is kept.
Observed(op) == op /\ storeSeen' = [ seen |-> Seen, after |-> fileState' ]

NoStoreOp ==
    [ op |-> "none",         \* none | getModelStatus | clearModel
      rejected |-> FALSE,    \* the promise of the call was rejected
      success |-> FALSE,     \* result.success
      error |-> FALSE,       \* the result has an error description
      exists |-> FALSE,      \* result.exists === true
      hasSize |-> FALSE,     \* the result has a sizeBytes field
      sizeBytes |-> 0 ]      \* result.sizeBytes

\* Faulty variant: the vocabulary file is not looked at.
getModelStatus_weightsOnly(statOk) ==
    LET model == getCurrentModel
        exists == existsSync(model.model)
        base == [ NoStoreOp EXCEPT !.op = "getModelStatus" ]
    IN  IF ~exists THEN [ base EXCEPT !.success = TRUE ]
        ELSE IF ~statOk THEN [ base EXCEPT !.error = TRUE ]
        ELSE [ base EXCEPT !.success = TRUE, !.exists = TRUE, !.hasSize = TRUE,
                           !.sizeBytes = statSize(model.model) + statSize(model.tokens) ]

\* getModelStatus, lines 253-288. `statOk`: no statSync call throws.
getModelStatus(statOk) ==
    LET model == getCurrentModel
        modelExists == existsSync(model.model)
        tokensExists == existsSync(model.tokens)
        exists == modelExists /\ tokensExists
        base == [ NoStoreOp EXCEPT !.op = "getModelStatus" ]
    IN  IF ~exists THEN [ base EXCEPT !.success = TRUE ]
        ELSE IF ~statOk THEN [ base EXCEPT !.error = TRUE ]
        ELSE [ base EXCEPT !.success = TRUE, !.exists = TRUE, !.hasSize = TRUE,
                           !.sizeBytes = statSize(model.model) + statSize(model.tokens) ]

GetModelStatus(statOk) ==
    /\ storeOp' = getModelStatus(statOk)
    /\ UNCHANGED << modelVars, downloadVars, cacheVars, callVars, xfer, progressVars, reportVars, chat >>

\* Faulty variant: only the files of the int8 variant are unlinked.
clearModel_int8Only(failAt) ==
    unlinkEach(fileState, SubSeq(filesToClean, 1, 2), failAt)

\* clearModel, lines 200-211: the unlink loop over a directory that exists.
clearModel(failAt) == unlinkEach(fileState, filesToClean, failAt)

\* clearModel, lines 192-230, as one call whose result is kept.
\* `emptied`: readdirSync finds nothing else and rmdirSync succeeds.
ClearModelCall(emptied, failAt) ==
    LET base == [ NoStoreOp EXCEPT !.op = "clearModel" ]
        loop == clearModel(failAt)
    IN  /\ IF ~dirExists
             THEN /\ storeOp' = [ base EXCEPT !.success = TRUE ]
                  /\ UNCHANGED << dirExists, fileState >>
             ELSE /\ fileState' = loop.files
                  /\ dirExists' = IF loop.threw THEN dirExists ELSE ~emptied
                  /\ storeOp' = IF loop.threw
                                  THEN [ base EXCEPT !.error = TRUE ]
                                  ELSE [ base EXCEPT !.success = TRUE ]
        /\ UNCHANGED << sttModelType, downloadVars, cacheVars, callVars, xfer, progressVars, reportVars, chat >>

----------------------------------------------------------------------------
\* Transcription: transcribeWithCache, transcribeWavBuffer and the worker.

Pending == [ settled |-> FALSE, success |-> FALSE, transcript |-> Undefined, error |-> << >> ]
Success(text) == [ settled |-> TRUE, success |-> TRUE, transcript |-> text, error |-> << >> ]
Failure(err) == [ settled |-> TRUE, success |-> FALSE, transcript |-> Undefined, error |-> err ]

NoReturn == [ success |-> FALSE, transcript |-> Undefined, error |-> << >>, cached |-> Undefined ]
NoSignal == [ kind |-> "none", text |-> Undefined, code |-> 0 ]

IdleCall ==
    [ pc |-> "idle", sessionId |-> << >>, createTime |-> 0, force |-> FALSE,
      cacheRead |-> FALSE,       \* getCachedTranscript was called
      modelChecked |-> FALSE,    \* transcribeWavBuffer checked the model files
      rowAtCall |-> Undefined,   \* the transcript the open store held for the pair at the call
      priorText |-> FALSE,       \* at the call, the pair was in okText
      priorEmpty |-> FALSE,      \* at the call, the pair was in okEmpty
      modelAtCall |-> FALSE,     \* at the call, the weights file of the current variant existed
      tokensAtCall |-> FALSE,    \* at the call, the vocabulary file of the current variant existed
      exitCode |-> 0,            \* the code of the 'exit' event, once worker = "exited"
      worker |-> "none",         \* none | running | terminating | faulted | exited
      promise |-> Pending,       \* the promise of transcribeWavBuffer
      partials |-> << >>,        \* the texts passed to onPartial
      posted |-> 0,              \* the partial messages delivered to the message handler
      first |-> NoSignal,        \* the first terminal signal the worker gave
      ret |-> NoReturn ]         \* what transcribeWithCache returned

\* Faulty variant: a later resolve replaces the value of the promise.
resolve_last(promise, value) == value

\* The resolve function of a promise: only the first call settles it.
resolve(promise, value) == IF promise.settled THEN promise ELSE value

\* Faulty variant: the vocabulary file is not checked.
transcribeWavBuffer_noTokensCheck(call, workerFile, spawnOk) ==
    LET model == getCurrentModel
        checked == [ call EXCEPT !.modelChecked = TRUE ]
    IN  IF ~existsSync(model.model)
          THEN [ checked EXCEPT !.promise = resolve(@, Failure(<< "model_missing" >>)) ]
        ELSE IF ~workerFile
          THEN [ checked EXCEPT !.promise = resolve(@, Failure(<< "worker_missing" >>)) ]
        ELSE IF ~spawnOk
          THEN [ checked EXCEPT !.promise = resolve(@, Failure(<< "exception" >>)) ]
        ELSE [ checked EXCEPT !.worker = "running" ]

\* Lines 374-411: the presence checks, then new Worker(...).
\* `workerFile`: existsSync(workerPath). `spawnOk`: new Worker(...) does not
\* throw; an exception is caught in lines 443-446 and resolves the promise.
transcribeWavBuffer(call, workerFile, spawnOk) ==
    LET model == getCurrentModel
        checked == [ call EXCEPT !.modelChecked = TRUE ]
    IN  IF ~existsSync(model.model)
          THEN [ checked EXCEPT !.promise = resolve(@, Failure(<< "model_missing" >>)) ]
        ELSE IF ~existsSync(model.tokens)
          THEN [ checked EXCEPT !.promise = resolve(@, Failure(<< "tokens_missing" >>)) ]
        ELSE IF ~workerFile
          THEN [ checked EXCEPT !.promise = resolve(@, Failure(<< "worker_missing" >>)) ]
        ELSE IF ~spawnOk
          THEN [ checked EXCEPT !.promise = resolve(@, Failure(<< "exception" >>)) ]
        ELSE [ checked EXCEPT !.worker = "running" ]

\* Faulty variant: the result is written without looking at result.success.
writeThrough_unchecked(call) ==
    saveTranscriptCache(call.sessionId, call.createTime,
                        IF call.promise.success THEN call.promise.transcript ELSE "B")

\* Lines 468-469: the write-through once transcribeWavBuffer has resolved.
writeThrough(call) ==
    IF call.promise.success /\ Truthy(call.promise.transcript)
      THEN saveTranscriptCache(call.sessionId, call.createTime, call.promise.transcript)
      ELSE transcript_cache

\* Line 471: return { ...result, cached: false }
returnResult(call) ==
    [ call EXCEPT !.pc = "returned",
                  !.ret = [ success |-> call.promise.success,
                            transcript |-> call.promise.transcript,
                            error |-> call.promise.error,
                            cached |-> FALSE ] ]

\* The step of a call: `after` is the call once the synchronous code has run.
\* When that code settled the promise, the continuation of transcribeWithCache
\* (lines 468-471) runs before any other event.
Continue(c, before, after) ==
    LET pair == << after.sessionId, after.createTime >>
        settles == ~before.promise.settled /\ after.promise.settled
        done == IF settles THEN returnResult(after) ELSE after
    IN  /\ calls' = [ calls EXCEPT ![c] = done ]
        /\ transcript_cache' = IF settles THEN writeThrough(after) ELSE transcript_cache
        /\ saved' = IF settles /\ after.promise.success /\ Truthy(after.promise.transcript)
                      THEN noteSave(after.sessionId, after.createTime, after.promise.transcript)
                      ELSE saved
        /\ okText' = IF settles /\ after.promise.success /\ Truthy(after.promise.transcript)
                       THEN okText \cup { pair } ELSE okText
        /\ okEmpty' = IF settles /\ after.promise.success /\ ~Truthy(after.promise.transcript)
                        THEN okEmpty \cup { pair } ELSE okEmpty
        /\ UNCHANGED << cacheDb, cacheOp >>

\* Faulty variant: the force flag is ignored.
readsCache_always(force) == TRUE

\* Line 460: if (!force)
readsCache(force) == ~force

\* transcribeWithCache(wavData, sessionId, createTime, onPartial, force)
TranscribeWithCache(c, sessionId, createTime, force, workerFile, spawnOk) ==
    /\ calls[c].pc = "idle"
    /\ IF c = 1 THEN TRUE ELSE calls[c - 1].pc # "idle"
    /\ LET row == SelectTranscript(getCacheKey(sessionId, createTime))
           call == [ IdleCall EXCEPT !.pc = "waiting", !.sessionId = sessionId,
                                     !.createTime = createTime, !.force = force,
                                     !.rowAtCall = IF cacheDb /\ row # {}
                                                     THEN CHOOSE t \in row : TRUE
                                                     ELSE Undefined,
                                     !.priorText = << sessionId, createTime >> \in okText,
                                     !.priorEmpty = << sessionId, createTime >> \in okEmpty,
                                     !.modelAtCall = existsSync(getCurrentModel.model),
                                     !.tokensAtCall = existsSync(getCurrentModel.tokens),
                                     !.cacheRead = readsCache(force) ]
           cached == IF readsCache(force)
                       THEN getCachedTranscript(sessionId, createTime)
                       ELSE Undefined
       IN  IF readsCache(force) /\ Truthy(cached)
             THEN /\ calls' = [ calls EXCEPT ![c] =
                        [ call EXCEPT !.pc = "returned",
                                      !.ret = [ success |-> TRUE, transcript |-> cached,
                                                error |-> << >>, cached |-> TRUE ] ] ]
                  /\ okText' = okText \cup { << sessionId, createTime >> }
                  /\ UNCHANGED << cacheVars, okEmpty >>
             ELSE Continue(c, call, transcribeWavBuffer(call, workerFile, spawnOk))
    /\ UNCHANGED << modelVars, downloadVars, soloVars >>

\* A terminal signal is remembered when it is the first one of its worker.
Noted(call, signal) ==
    IF call.first = NoSignal THEN [ call EXCEPT !.first = signal ] ELSE call

\* Faulty variant: a partial message is forwarded only while none was yet.
onMessage_firstPartialOnly(call, type, text) ==
    IF type = "partial"
      THEN [ call EXCEPT !.partials = IF @ = << >> THEN Append(@, text) ELSE @ ]
    ELSE IF type = "final"
      THEN [ call EXCEPT !.promise = resolve(@, Success(text)),
                         !.worker = "terminating" ]
    ELSE IF type = "error"
      THEN [ call EXCEPT !.promise = resolve(@, Failure(<< "worker_error" >>)),
                         !.worker = "terminating" ]
    ELSE call

\* Faulty variant: a final message resolves the call and leaves the worker running.
onMessage_finalKeepsWorker(call, type, text) ==
    IF type = "partial"
      THEN [ call EXCEPT !.partials = Append(@, text) ]
    ELSE IF type = "final"
      THEN [ call EXCEPT !.promise = resolve(@, Success(text)) ]
    ELSE IF type = "error"
      THEN [ call EXCEPT !.promise = resolve(@, Failure(<< "worker_error" >>)),
                         !.worker = "terminating" ]
    ELSE call

\* worker.on('message'), lines 415-429.
onMessage(call, type, text) ==
    IF type = "partial"
      THEN [ call EXCEPT !.partials = Append(@, text) ]
    ELSE IF type = "final"
      THEN [ call EXCEPT !.promise = resolve(@, Success(text)),
                         !.worker = "terminating" ]
    ELSE IF type = "error"
      THEN [ call EXCEPT !.promise = resolve(@, Failure(<< "worker_error" >>)),
                         !.worker = "terminating" ]
    ELSE call

\* Faulty variant: the handler of the 'error' event only logs the fault.
onError_logOnly(call) == call

\* worker.on('error'), lines 431-434.
onError(call) ==
    [ call EXCEPT !.promise = resolve(@, Failure(<< "worker_fault" >>)) ]

\* worker.on('exit'), lines 436-441.
onExit(call, code) ==
    IF code # 0
      THEN [ call EXCEPT !.promise = resolve(@, Failure(<< "worker_exit", code >>)) ]
      ELSE call

WorkerAlive(c) == calls[c].worker \in { "running", "terminating" }

\* The worker posts { type: 'partial', text }: the k-th partial carries text k.
\* `max`: the partial messages one worker emits at most.
PostPartial(c, max) ==
    /\ WorkerAlive(c)
    /\ calls[c].posted < max
    /\ Continue(c, calls[c],
                onMessage([ calls[c] EXCEPT !.posted = @ + 1 ], "partial", calls[c].posted + 1))
    /\ UNCHANGED << modelVars, downloadVars, soloVars >>

WorkerPartial(c) == PostPartial(c, MaxPartials)

\* The worker posts { type: 'final', text }.
WorkerFinal(c, text) ==
    /\ WorkerAlive(c)
    /\ Continue(c, calls[c],
                onMessage(Noted(calls[c], [ kind |-> "final", text |-> text, code |-> 0 ]),
                          "final", text))
    /\ UNCHANGED << modelVars, downloadVars, soloVars >>

\* The worker posts { type: 'error', error }.
WorkerErrorMessage(c) ==
    /\ WorkerAlive(c)
    /\ Continue(c, calls[c],
                onMessage(Noted(calls[c], [ kind |-> "error", text |-> Undefined, code |-> 0 ]),
                          "error", Undefined))
    /\ UNCHANGED << modelVars, downloadVars, soloVars >>

\* An uncaught fault in the worker: the 'error' event; the worker then exits.
WorkerFault(c) ==
    /\ WorkerAlive(c)
    /\ Continue(c, calls[c],
                [ onError(Noted(calls[c], [ kind |-> "fault", text |-> Undefined, code |-> 0 ]))
                    EXCEPT !.worker = IF @ = "running" THEN "faulted" ELSE @ ])
    /\ UNCHANGED << modelVars, downloadVars, soloVars >>

\* The worker thread has ended: the 'exit' event, the last event of a worker.
WorkerExit(c, code) ==
    /\ calls[c].worker \in { "running", "terminating", "faulted" }
    /\ Continue(c, calls[c],
                [ onExit(IF code # 0
                           THEN Noted(calls[c], [ kind |-> "exit", text |-> Undefined, code |-> code ])
                           ELSE calls[c], code)
                    EXCEPT !.worker = "exited", !.exitCode = code ])
    /\ UNCHANGED << modelVars, downloadVars, soloVars >>

----------------------------------------------------------------------------
\* Model acquisition: downloadModel and its two downloadToFile transfers.

NoResult ==
    [ settled |-> FALSE,      \* the promise is no longer pending
      rejected |-> FALSE,     \* it was rejected: an exception left the async function
      success |-> FALSE, error |-> FALSE, modelPath |-> Undefined, tokensPath |-> Undefined ]

UnusedTask ==
    [ pc |-> "unused",           \* unused | model_req | model_write | tokens_req | tokens_write | done
      variant |-> Undefined,     \* the model type configured when the task started
      modelPath |-> Undefined,   \* const modelPath, line 309
      tokensPath |-> Undefined,  \* const tokensPath, line 310
      onProgress |-> 0,          \* the downloadModel call whose onProgress the task captured
      total |-> 0,               \* content-length of the current response, 0 = no header
      downloaded |-> 0,          \* let downloadedBytes of the current transfer
      result |-> NoResult,       \* what the promise of the task resolved with
      cleanupThrew |-> FALSE,    \* an unlinkSync call of the catch block threw
      atEnd |-> NoFiles ]        \* the model directory at the moment the promise resolved

TaskIds == 1 .. MaxTasks

Transferring == { "model_req", "model_write", "tokens_req", "tokens_write" }

\* The tasks whose promise is still pending.
InFlight == { t \in TaskIds : tasks[t].pc \in Transferring }

\* The tasks whose promise has resolved.
Finished(t) == tasks[t].result.settled


\* Line 357: this.downloadTasks.delete(cacheKey)
deleteTask(registry) == 0

\* Faulty variant: the lookup finds no entry, whatever the registry holds.
pendingDownload_ignored == deleteTask(downloadTasks)

\* Line 297: this.downloadTasks.get(cacheKey)
pendingDownload == downloadTasks

\* Line 361: this.downloadTasks.set(cacheKey, task)
setTask(registry, t) == t

\* Faulty variant: the unlink calls of the catch block are not in a try block
\* of their own, an exception of unlinkSync leaves the async function.
cleanupFiles_unguarded(files, failAt) ==
    LET model == getCurrentModel
        loop == unlinkEach(files, << model.model, model.tokens >>, failAt)
    IN  [ files |-> loop.files, threw |-> loop.threw, rejected |-> loop.threw ]

\* Lines 346-355: the catch block. The files to delete are looked up again,
\* from the model type configured at that moment; the two unlink calls are
\* in one try block whose catch is empty.
\* `failAt`: the file whose unlinkSync throws, or "none".
cleanupFiles(files, failAt) ==
    LET model == getCurrentModel
        loop == unlinkEach(files, << model.model, model.tokens >>, failAt)
    IN  [ files |-> loop.files, threw |-> loop.threw, rejected |-> FALSE ]

\* The task once it has failed: catch, then return { success: false, error }.
failTask(task, cleanup) ==
    [ task EXCEPT !.pc = "done",
                  !.result = [ settled |-> TRUE, rejected |-> cleanup.rejected,
                               success |-> FALSE, error |-> ~cleanup.rejected,
                               modelPath |-> Undefined, tokensPath |-> Undefined ],
                  !.cleanupThrew = cleanup.threw,
                  !.atEnd = cleanup.files ]

\* downloadModel(onProgress). `mkdirOk`: mkdirSync succeeds when it is called;
\* `failAt`: the file whose unlinkSync throws in the catch block, or "none".
\* The body of the async function runs synchronously up to its first await,
\* and only then is the task stored in the registry (line 361).
DownloadModel(mkdirOk, failAt) ==
    /\ Len(dlCalls) < MaxDlCalls
    /\ IF pendingDownload # 0
         THEN /\ dlCalls' = Append(dlCalls, [ task |-> pendingDownload, started |-> FALSE,
                                              inflight |-> InFlight ])
              /\ UNCHANGED << downloadTasks, tasks, modelVars >>
         ELSE \E t \in TaskIds :
              /\ tasks[t].pc = "unused"
              /\ \A u \in TaskIds : u < t => tasks[u].pc # "unused"
              /\ dlCalls' = Append(dlCalls, [ task |-> t, started |-> TRUE,
                                              inflight |-> InFlight ])
              /\ IF ~dirExists /\ ~mkdirOk
                   THEN \* mkdirSync throws: catch and finally run before line 361
                        /\ fileState' = cleanupFiles(fileState, failAt).files
                        /\ tasks' = [ tasks EXCEPT ![t] =
                              failTask([ @ EXCEPT !.variant = sttModelType,
                                                  !.onProgress = Len(dlCalls) + 1 ],
                                       cleanupFiles(fileState, failAt)) ]
                        /\ downloadTasks' = setTask(deleteTask(downloadTasks), t)
                        /\ UNCHANGED << dirExists, sttModelType >>
                   ELSE /\ dirExists' = TRUE
                        /\ tasks' = [ tasks EXCEPT ![t] =
                              [ @ EXCEPT !.pc = "model_req",
                                         !.variant = sttModelType,
                                         !.onProgress = Len(dlCalls) + 1,
                                         !.modelPath = getCurrentModel.model,
                                         !.tokensPath = getCurrentModel.tokens ] ]
                        /\ downloadTasks' = setTask(downloadTasks, t)
                        /\ UNCHANGED << fileState, sttModelType >>
    /\ UNCHANGED << cacheVars, callVars, soloVars >>

\* The file a task's current transfer writes.
TargetPath(task) ==
    IF task.pc \in { "model_req", "model_write" } THEN task.modelPath ELSE task.tokensPath

\* downloadToFile, lines 508-516: the response has status 200 and
\* createWriteStream(targetPath) creates or truncates the file.
\* `contentLength`: Number(response.headers['content-length'] || 0).
Response200(t, contentLength) ==
    /\ tasks[t].pc \in { "model_req", "tokens_req" }
    /\ dirExists
    /\ fileState' = [ fileState EXCEPT ![TargetPath(tasks[t])] = "partial" ]
    /\ tasks' = [ tasks EXCEPT ![t] =
          [ @ EXCEPT !.pc = IF @ = "model_req" THEN "model_write" ELSE "tokens_write",
                     !.total = contentLength, !.downloaded = 0 ] ]
    /\ UNCHANGED << sttModelType, dirExists, downloadTasks, dlCalls, cacheVars, callVars, soloVars >>

\* Faulty variant: the counter is set to the length of the chunk.
addChunk_reset(downloadedBytes, length) == length

\* Line 519: downloadedBytes += chunk.length
addChunk(downloadedBytes, length) == downloadedBytes + length

\* A percent value: an exact fraction, or undefined.
NoPercent == [ defined |-> FALSE, num |-> 0, den |-> 1 ]
Percent(num, den) == [ defined |-> TRUE, num |-> num, den |-> den ]

NoProgress ==
    [ task |-> 0,                \* the task whose transfer reported
      to |-> 0,                  \* the downloadModel call whose onProgress was invoked
      phase |-> "none",          \* none | model | tokens
      downloaded |-> 0,          \* the first argument of the callback given to downloadToFile
      total |-> 0,               \* its second argument, 0 = undefined
      modelSize |-> 0,           \* const modelSize, line 333
      modelName |-> Undefined,   \* the variant whose name is reported
      downloadedBytes |-> 0, totalBytes |-> 0, percent |-> NoPercent ]

\* Lines 317-325: the progress callback of the weights transfer.
modelProgress(currentModel, downloaded, total) ==
    [ NoProgress EXCEPT
        !.phase = "model", !.downloaded = downloaded, !.total = total,
        !.modelName = currentModel,
        !.downloadedBytes = downloaded,
        !.totalBytes = SENSEVOICE_MODELS[currentModel].sizeBytes,
        !.percent = IF total # 0 THEN Percent(downloaded * 60, total) ELSE NoPercent ]

\* Faulty variant: the vocabulary phase reports the bytes against the expected size.
tokensProgress_byBytes(currentModel, modelPath, downloaded, total) ==
    LET modelSize == IF existsSync(modelPath) THEN statSize(modelPath) ELSE 0
    IN  [ NoProgress EXCEPT
            !.phase = "tokens", !.downloaded = downloaded, !.total = total,
            !.modelSize = modelSize, !.modelName = currentModel,
            !.downloadedBytes = modelSize + downloaded,
            !.totalBytes = SENSEVOICE_MODELS[currentModel].sizeBytes,
            !.percent = Percent((modelSize + downloaded) * 100,
                                SENSEVOICE_MODELS[currentModel].sizeBytes) ]

\* Lines 332-342: the progress callback of the vocabulary transfer.
\* percent = total ? 60 + (downloaded / total) * 40 : 60
tokensProgress(currentModel, modelPath, downloaded, total) ==
    LET modelSize == IF existsSync(modelPath) THEN statSize(modelPath) ELSE 0
    IN  [ NoProgress EXCEPT
            !.phase = "tokens", !.downloaded = downloaded, !.total = total,
            !.modelSize = modelSize, !.modelName = currentModel,
            !.downloadedBytes = modelSize + downloaded,
            !.totalBytes = SENSEVOICE_MODELS[currentModel].sizeBytes,
            !.percent = IF total # 0 THEN Percent(60 * total + downloaded * 40, total)
                                     ELSE Percent(60, 1) ]

\* Faulty variant: the callback of the latest downloadModel call is invoked.
progressTarget_latestCall(task) == Len(dlCalls)

\* The onProgress the callbacks of a task invoke: the parameter of the
\* downloadModel call that created the task, captured by its closures.
progressTarget(task) == task.onProgress

\* downloadToFile, lines 518-521: a 'data' event of the response of a task.
\* The server sends the FileBytes of the file, in chunks.
ResponseData(t, length) ==
    /\ tasks[t].pc \in { "model_write", "tokens_write" }
    /\ tasks[t].downloaded + length <= FileBytes[TargetPath(tasks[t])]
    /\ LET task == tasks[t]
           downloadedBytes == addChunk(task.downloaded, length)
           report == IF task.pc = "model_write"
                       THEN modelProgress(task.variant, downloadedBytes, task.total)
                       ELSE tokensProgress(task.variant, task.modelPath, downloadedBytes, task.total)
       IN  /\ tasks' = [ tasks EXCEPT ![t].downloaded = downloadedBytes ]
           /\ progress' = [ report EXCEPT !.task = t, !.to = progressTarget(task) ]
           /\ notified' = notified \cup { progressTarget(task) }
    /\ UNCHANGED << modelVars, downloadTasks, dlCalls, cacheVars, callVars, storeOp, storeSeen, xfer, reportVars, chat >>

\* The response of a task: a status 200 with or without a content-length header.
ResponseBody(t, known) ==
    Response200(t, IF known THEN FileBytes[TargetPath(tasks[t])] ELSE 0)

\* downloadToFile, lines 533-537: the writer finished, the transfer resolves.
\* A file unlinked while it was written stays absent.
\* After the weights the task starts the vocabulary transfer; after the
\* vocabulary it returns { success: true, modelPath, tokensPath } and the
\* finally block deletes the registry entry.
TransferFinish(t) ==
    /\ tasks[t].pc \in { "model_write", "tokens_write" }
    /\ fileState' = [ fileState EXCEPT ![TargetPath(tasks[t])] =
                        IF @ = "partial" THEN "complete" ELSE @ ]
    /\ IF tasks[t].pc = "model_write"
         THEN /\ tasks' = [ tasks EXCEPT ![t].pc = "tokens_req" ]
              /\ UNCHANGED downloadTasks
         ELSE /\ tasks' = [ tasks EXCEPT ![t] =
                    [ @ EXCEPT !.pc = "done",
                               !.result = [ settled |-> TRUE, rejected |-> FALSE,
                                            success |-> TRUE, error |-> FALSE,
                                            modelPath |-> tasks[t].modelPath,
                                            tokensPath |-> tasks[t].tokensPath ],
                               !.atEnd = fileState' ] ]
              /\ downloadTasks' = deleteTask(downloadTasks)
    /\ UNCHANGED << sttModelType, dirExists, dlCalls, cacheVars, callVars, soloVars >>

\* downloadToFile rejects (request error, status other than 200, too many
\* redirects, response error, writer error): catch, return, finally.
TransferFail(t, failAt) ==
    /\ tasks[t].pc \in Transferring
    /\ fileState' = cleanupFiles(fileState, failAt).files
    /\ tasks' = [ tasks EXCEPT ![t] = failTask(@, cleanupFiles(fileState, failAt)) ]
    /\ downloadTasks' = deleteTask(downloadTasks)
    /\ UNCHANGED << sttModelType, dirExists, dlCalls, cacheVars, callVars, soloVars >>

----------------------------------------------------------------------------
\* downloadToFile, lines 477-547: one call with its redirects, its response
\* body and its promise. A redirect is followed by a nested call whose
\* outcome settles the promise of the outer call (.then(resolve).catch(reject)),
\* so the chain of calls has one outcome.

NoTransfer ==
    [ pc |-> "idle",            \* idle | request | body | resolved | rejected
      remainingRedirects |-> 0, \* the parameter of the innermost call
      requests |-> 0,           \* protocol.get calls made
      responses |-> 0,          \* responses received
      redirects |-> 0,          \* responses that were a redirect with a Location header
      followed |-> 0,           \* redirects followed by a nested call
      error |-> "none",         \* none | too_many_redirects | http_status | network | stream
      downloadedBytes |-> 0,    \* let downloadedBytes, line 514
      reports |-> << >>,        \* the first arguments of the onProgress calls
      fileBytes |-> 0 ]         \* the bytes the writer was given for the target file

\* Faulty variant: the last permitted redirect is refused.
redirectsExhausted_early(remainingRedirects) == remainingRedirects <= 1

\* Line 497: if (remainingRedirects <= 0)
redirectsExhausted(remainingRedirects) == remainingRedirects <= 0

\* downloadToFile(url, targetPath, fileName, onProgress): the first request.
StartTransfer ==
    /\ xfer.pc = "idle"
    /\ xfer' = [ xfer EXCEPT !.pc = "request", !.remainingRedirects = DefaultRedirects,
                              !.requests = 1 ]
    /\ UNCHANGED << modelVars, downloadVars, cacheVars, callVars, storeOp, storeSeen, progressVars, reportVars, chat >>

\* Lines 496-506: a response with status 301, 302, 303, 307 or 308 and a
\* Location header. The nested call makes its request at once.
ResponseRedirect ==
    /\ xfer.pc = "request"
    /\ xfer' = IF redirectsExhausted(xfer.remainingRedirects)
                 THEN [ xfer EXCEPT !.pc = "rejected", !.error = "too_many_redirects",
                                    !.responses = @ + 1, !.redirects = @ + 1 ]
                 ELSE [ xfer EXCEPT !.remainingRedirects = @ - 1,
                                    !.responses = @ + 1, !.redirects = @ + 1,
                                    !.followed = @ + 1, !.requests = @ + 1 ]
    /\ UNCHANGED << modelVars, downloadVars, cacheVars, callVars, storeOp, storeSeen, progressVars, reportVars, chat >>

\* Lines 508-511: any other status than 200 (a 3xx without Location included).
ResponseStatus ==
    /\ xfer.pc = "request"
    /\ xfer' = [ xfer EXCEPT !.pc = "rejected", !.error = "http_status", !.responses = @ + 1 ]
    /\ UNCHANGED << modelVars, downloadVars, cacheVars, callVars, storeOp, storeSeen, progressVars, reportVars, chat >>

\* Lines 513-539: status 200; createWriteStream creates or truncates the file.
ResponseOk ==
    /\ xfer.pc = "request"
    /\ xfer' = [ xfer EXCEPT !.pc = "body", !.responses = @ + 1,
                              !.downloadedBytes = 0, !.fileBytes = 0 ]
    /\ UNCHANGED << modelVars, downloadVars, cacheVars, callVars, storeOp, storeSeen, progressVars, reportVars, chat >>

\* Lines 518-521 and 539: a 'data' event; the chunk also goes to the writer.
DataChunk(length) ==
    /\ xfer.pc = "body"
    /\ Len(xfer.reports) < MaxChunks
    /\ xfer' = [ xfer EXCEPT !.downloadedBytes = addChunk(@, length),
                              !.reports = Append(@, addChunk(xfer.downloadedBytes, length)),
                              !.fileBytes = @ + length ]
    /\ UNCHANGED << modelVars, downloadVars, cacheVars, callVars, storeOp, storeSeen, progressVars, reportVars, chat >>

\* Lines 533-537: the writer has written everything: 'finish', resolve().
WriterFinish ==
    /\ xfer.pc = "body"
    /\ xfer' = [ xfer EXCEPT !.pc = "resolved" ]
    /\ UNCHANGED << modelVars, downloadVars, cacheVars, callVars, storeOp, storeSeen, progressVars, reportVars, chat >>

\* Lines 542-545: request.on('error').
RequestError ==
    /\ xfer.pc = "request"
    /\ xfer' = [ xfer EXCEPT !.pc = "rejected", !.error = "network" ]
    /\ UNCHANGED << modelVars, downloadVars, cacheVars, callVars, storeOp, storeSeen, progressVars, reportVars, chat >>

\* Lines 523-531: response.on('error') or writer.on('error').
StreamError ==
    /\ xfer.pc = "body"
    /\ xfer' = [ xfer EXCEPT !.pc = "rejected", !.error = "stream" ]
    /\ UNCHANGED << modelVars, downloadVars, cacheVars, callVars, storeOp, storeSeen, progressVars, reportVars, chat >>

----------------------------------------------------------------------------
\* AssistantReportService: the stored schedule, the timer tick, runNow and
\* generateAndSaveReport with its suspension points.

Times == { "03:00", "xx" }         \* values of config.time; "xx" does not parse
NowTimes == { "03:00", "03:01" }   \* hour and minute of the clock at a tick
RangeDays == { 1, 7 }

\* DEFAULT_SCHEDULE, lines 37-44. lastRunDate 0: the field is not there.
\* filterMode, sessionIds and excludeSessionIds are left out.
DEFAULT_SCHEDULE ==
    [ enabled |-> FALSE, time |-> "03:00", rangeDays |-> 1, lastRunDate |-> 0 ]

\* { ...base, ...over }: a field of `over` that is there replaces that of `base`.
Spread(base, over) ==
    [ enabled |-> over.enabled, time |-> over.time, rangeDays |-> over.rangeDays,
      lastRunDate |-> IF over.lastRunDate # 0 THEN over.lastRunDate ELSE base.lastRunDate ]

\* Lines 65-68. A store without the key reads as DEFAULT_SCHEDULE.
getSchedule == Spread(DEFAULT_SCHEDULE, assistantSchedule)

\* A configuration the settings page saves. `keepsDate`: it carries the
\* lastRunDate the page read; otherwise the field is not there.
ScheduleInput(enabled, time, rangeDays, keepsDate) ==
    [ enabled |-> enabled, time |-> time, rangeDays |-> rangeDays,
      lastRunDate |-> IF keepsDate THEN assistantSchedule.lastRunDate ELSE 0 ]

RunIds == 1 .. MaxRuns

NoRun ==
    [ kind |-> "none",          \* none | tick | runNow
      pc |-> "idle",            \* idle | messages | sessions | chat | done
      config |-> DEFAULT_SCHEDULE,  \* the config parameter of generateAndSaveReport, while it runs
      today |-> 0,              \* const today of the tick, while it runs
      hasMessages |-> FALSE,    \* messages.length > 0
      resaved |-> FALSE,        \* history: setSchedule was called while it runs
      result |-> "none" ]       \* none | busy | success | failure | exception

\* The runs whose generation is in progress: between this.running = true
\* and the finally block.
Generating == { r \in RunIds : runs[r].pc \in { "messages", "sessions", "chat" } }

\* The next unused slot of the run table.
FreeRun(r) ==
    /\ runs[r].kind = "none"
    /\ \A q \in RunIds : q < r => runs[q].kind # "none"

\* setSchedule(config), lines 70-74.
SetSchedule(config) ==
    /\ assistantSchedule' = Spread(DEFAULT_SCHEDULE, config)
    /\ runs' = [ r \in RunIds |->
                   IF r \in Generating THEN [ runs[r] EXCEPT !.resaved = TRUE ] ELSE runs[r] ]
    /\ UNCHANGED << running, today >>
    /\ UNCHANGED << modelVars, downloadVars, cacheVars, callVars,
                    storeOp, storeSeen, xfer, progressVars, chat >>

\* Faulty variant: the guard of generateAndSaveReport never finds a generation.
inProgress_never(flag) == FALSE

\* Line 163: if (this.running)
inProgress(flag) == flag

\* generateAndSaveReport up to its first await (lines 163-183), for run r.
startReport(r, kind, config, day) ==
    LET run == [ NoRun EXCEPT !.kind = kind, !.config = config, !.today = day ]
    IN  IF inProgress(running)
          THEN /\ runs' = [ runs EXCEPT ![r] =
                     [ run EXCEPT !.pc = "done", !.result = "busy",
                                  !.config = DEFAULT_SCHEDULE, !.today = 0 ] ]
               /\ UNCHANGED running
          ELSE /\ runs' = [ runs EXCEPT ![r] = [ run EXCEPT !.pc = "messages" ] ]
               /\ running' = TRUE

\* runNow(chatService, logService, override), lines 91-94.
\* `override`: a rangeDays value, or 0 for no override.
RunNow(override) ==
    /\ \E r \in RunIds :
          /\ FreeRun(r)
          /\ startReport(r, "runNow",
                         IF override # 0 THEN [ getSchedule EXCEPT !.rangeDays = override ]
                                         ELSE getSchedule,
                         0)
    /\ UNCHANGED << assistantSchedule, today >>
    /\ UNCHANGED << modelVars, downloadVars, cacheVars, callVars,
                    storeOp, storeSeen, xfer, progressVars, chat >>

\* Lines 136-140: Number(hourStr) or Number(minuteStr) is NaN.
timeIsNaN(time) == time = "xx"

\* tick, lines 131-146, up to the first await of generateAndSaveReport.
\* `now`: hour and minute of new Date(). A tick that returns at line 133,
\* 140, 141 or 144 changes nothing and is a stuttering step.
Tick(now) ==
    /\ LET config == getSchedule
       IN  /\ config.enabled /\ ~running
           /\ ~timeIsNaN(config.time)
           /\ now = config.time
           /\ config.lastRunDate # today
           /\ \E r \in RunIds : FreeRun(r) /\ startReport(r, "tick", config, today)
    /\ UNCHANGED << assistantSchedule, today >>
    /\ UNCHANGED << modelVars, downloadVars, cacheVars, callVars,
                    storeOp, storeSeen, xfer, progressVars, chat >>

\* Lines 148-149: const updated = { ...config, lastRunDate: today }
updatedSchedule(config, day) == [ config EXCEPT !.lastRunDate = day ]

\* The generation of run r ends: return or catch, then finally (line 241).
\* The promise resolves and a tick goes on with lines 148-149.
endReport(r, result) ==
    /\ runs' = [ runs EXCEPT ![r] = [ @ EXCEPT !.pc = "done", !.result = result,
                                               !.config = DEFAULT_SCHEDULE, !.today = 0,
                                               !.resaved = FALSE ] ]
    /\ running' = FALSE
    /\ assistantSchedule' =
          IF runs[r].kind = "tick"
            THEN updatedSchedule(runs[r].config, runs[r].today)
            ELSE assistantSchedule

\* Lines 227-236: the report file is written, or writeFileSync throws.
writeReport(r, writeOk) == endReport(r, IF writeOk THEN "success" ELSE "exception")

\* chatService.getMessagesInRange has settled, lines 178-190.
\* `outcome`: failure | empty | some | throws.
MessagesResult(r, outcome) ==
    /\ runs[r].pc = "messages"
    /\ IF outcome = "failure" THEN endReport(r, "failure")
       ELSE IF outcome = "throws" THEN endReport(r, "exception")
       ELSE /\ runs' = [ runs EXCEPT ![r] =
                  [ @ EXCEPT !.pc = "sessions", !.hasMessages = (outcome = "some") ] ]
            /\ UNCHANGED << running, assistantSchedule >>
    /\ UNCHANGED today
    /\ UNCHANGED << modelVars, downloadVars, cacheVars, callVars,
                    storeOp, storeSeen, xfer, progressVars, chat >>

\* chatService.getSessions has settled, lines 190-225; without messages the
\* report is written at once. `ok`: the promise was not rejected.
SessionsResult(r, ok, writeOk) ==
    /\ runs[r].pc = "sessions"
    /\ IF ~ok THEN endReport(r, "exception")
       ELSE IF runs[r].hasMessages
         THEN /\ runs' = [ runs EXCEPT ![r].pc = "chat" ]
              /\ UNCHANGED << running, assistantSchedule >>
       ELSE writeReport(r, writeOk)
    /\ UNCHANGED today
    /\ UNCHANGED << modelVars, downloadVars, cacheVars, callVars,
                    storeOp, storeSeen, xfer, progressVars, chat >>

\* import('./ai/aiService') and aiService.streamChat have settled, lines 201-236.
ChatResult(r, ok, writeOk) ==
    /\ runs[r].pc = "chat"
    /\ IF ~ok THEN endReport(r, "exception") ELSE writeReport(r, writeOk)
    /\ UNCHANGED today
    /\ UNCHANGED << modelVars, downloadVars, cacheVars, callVars,
                    storeOp, storeSeen, xfer, progressVars, chat >>

\* Midnight: the calendar day of the clock changes.
NextDay ==
    /\ today < MaxDays
    /\ today' = today + 1
    /\ UNCHANGED << assistantSchedule, running, runs >>
    /\ UNCHANGED << modelVars, downloadVars, cacheVars, callVars,
                    storeOp, storeSeen, xfer, progressVars, chat >>

InitReport ==
    /\ assistantSchedule = DEFAULT_SCHEDULE
    /\ running = FALSE
    /\ runs = [ r \in RunIds |-> NoRun ]
    /\ today = 1

----------------------------------------------------------------------------
\* BaseAIProvider.streamChat, lines 106-175: the loop over the chunks of the
\* stream and the chunks given to onChunk.

\* The texts of a delta; "" stands for a field that is empty or not there.
\* A text can itself read like a marker.
Texts == { "a", "</think>" }

NoChat ==
    [ pc |-> "idle",          \* idle | streaming | returned | failed
      isThinking |-> FALSE,   \* let isThinking, line 147
      deltas |-> 0,           \* chunks of the stream consumed
      out |-> << >> ]         \* the onChunk calls: the chunk and where it came from

Marker(chunk) == [ chunk |-> chunk, from |-> "marker" ]
Text(chunk, from) == [ chunk |-> chunk, from |-> from ]

\* Faulty variant: content that follows reasoning is emitted without the closing marker.
onDelta_noClose(state, reasoning, content) ==
    IF reasoning # ""
      THEN [ state EXCEPT
               !.out = (IF state.isThinking THEN @ ELSE Append(@, Marker("<think>")))
                         \o << Text(reasoning, "reasoning") >>,
               !.isThinking = TRUE ]
    ELSE IF content # ""
      THEN [ state EXCEPT !.out = Append(@, Text(content, "content")),
                          !.isThinking = FALSE ]
    ELSE state

\* Lines 150-168: the body of the loop for one chunk of the stream.
onDelta(state, reasoning, content) ==
    IF reasoning # ""
      THEN [ state EXCEPT
               !.out = (IF state.isThinking THEN @ ELSE Append(@, Marker("<think>")))
                         \o << Text(reasoning, "reasoning") >>,
               !.isThinking = TRUE ]
    ELSE IF content # ""
      THEN [ state EXCEPT
               !.out = (IF state.isThinking THEN Append(@, Marker("</think>")) ELSE @)
                         \o << Text(content, "content") >>,
               !.isThinking = FALSE ]
    ELSE state

\* streamChat up to the loop, lines 111-147: the stream was created.
StreamChat ==
    /\ chat.pc = "idle"
    /\ chat' = [ chat EXCEPT !.pc = "streaming" ]
    /\ UNCHANGED << modelVars, downloadVars, cacheVars, callVars,
                    storeOp, storeSeen, xfer, progressVars, reportVars >>

\* The stream yields a chunk with delta { reasoning_content, content }.
StreamDelta(reasoning, content) ==
    /\ chat.pc = "streaming"
    /\ chat.deltas < MaxDeltas
    /\ chat' = onDelta([ chat EXCEPT !.deltas = @ + 1 ], reasoning, content)
    /\ UNCHANGED << modelVars, downloadVars, cacheVars, callVars,
                    storeOp, storeSeen, xfer, progressVars, reportVars >>

\* The stream is done: lines 171-175, then the call returns.
StreamEnd ==
    /\ chat.pc = "streaming"
    /\ chat' = [ chat EXCEPT !.pc = "returned",
                              !.out = IF chat.isThinking THEN Append(@, Marker("</think>")) ELSE @ ]
    /\ UNCHANGED << modelVars, downloadVars, cacheVars, callVars,
                    storeOp, storeSeen, xfer, progressVars, reportVars >>

\* The stream throws (network error, timeout): the exception leaves the loop
\* and streamChat, nothing more is emitted.
StreamThrows ==
    /\ chat.pc = "streaming"
    /\ chat' = [ chat EXCEPT !.pc = "failed" ]
    /\ UNCHANGED << modelVars, downloadVars, cacheVars, callVars,
                    storeOp, storeSeen, xfer, progressVars, reportVars >>

----------------------------------------------------------------------------
\* Specifications.

InitModel ==
    /\ sttModelType \in ModelTypes
    /\ fileState \in InitFileStates
    /\ dirExists \in BOOLEAN
    /\ ~dirExists => fileState = NoFiles

InitDownload ==
    /\ downloadTasks = 0
    /\ tasks = [ t \in TaskIds |-> UnusedTask ]
    /\ dlCalls = << >>

\* initCacheDb: the store is opened, or the failure is caught and cacheDb = null.
InitCache ==
    /\ cacheDb \in BOOLEAN
    /\ transcript_cache = { }
    /\ saved = [ p \in Pairs |-> Undefined ]
    /\ cacheOp = NoCacheOp

InitCalls ==
    /\ calls = [ c \in CallIds |-> IdleCall ]
    /\ okText = { }
    /\ okEmpty = { }

InitSolo ==
    /\ storeOp = NoStoreOp
    /\ storeSeen = NothingSeen
    /\ xfer = NoTransfer
    /\ progress = NoProgress
    /\ notified = { }
    /\ InitReport
    /\ chat = NoChat

Init == InitModel /\ InitDownload /\ InitCache /\ InitCalls /\ InitSolo

\* Transcription with the cache; the model directory is an input.
NextTranscribe ==
    \/ \E c \in CallIds, sessionId \in SessionIds, createTime \in CreateTimes,
          force \in BOOLEAN, workerFile \in BOOLEAN :
            TranscribeWithCache(c, sessionId, createTime, force, workerFile, TRUE)
    \/ \E c \in CallIds : WorkerPartial(c)
    \/ \E c \in CallIds, text \in Transcripts : WorkerFinal(c, text)
    \/ \E c \in CallIds : WorkerErrorMessage(c)
    \/ \E c \in CallIds : WorkerFault(c)
    \/ \E c \in CallIds, code \in ExitCodes : WorkerExit(c, code)
    \/ \E v \in ModelTypes : SetModelType(v)
    \/ \E emptied \in BOOLEAN : ClearModel(emptied)

SpecTranscribe == Init /\ [][NextTranscribe]_vars

\* Model download, clearing and configuration.
NextDownload ==
    \/ \E mkdirOk \in BOOLEAN : DownloadModel(mkdirOk, "none")
    \/ \E t \in TaskIds : Response200(t, 0)
    \/ \E t \in TaskIds : TransferFinish(t)
    \/ \E t \in TaskIds : TransferFail(t, "none")
    \/ \E v \in ModelTypes : SetModelType(v)
    \/ \E emptied \in BOOLEAN : ClearModel(emptied)

SpecDownload == Init /\ [][NextDownload]_vars

\* The transcript cache on its own: direct getCachedTranscript and
\* saveTranscriptCache calls and one transcribeWithCache call, over a store
\* that may hold rows written by earlier runs of the program.
InitTables ==
    { { }, { Row(<< "s" >>, 11, "B") }, { Row(<< "s" >>, 11, "A"), Row(<< "s", ":", "1" >>, 11, "B") } }

InitCacheStore ==
    /\ InitModel /\ InitDownload /\ InitCalls /\ InitSolo
    /\ sttModelType = "int8" /\ dirExists
    /\ fileState["model.int8.onnx"] = fileState["tokens.txt"]
    /\ cacheDb \in BOOLEAN
    /\ transcript_cache \in InitTables
    /\ saved = [ p \in Pairs |-> Undefined ]
    /\ cacheOp = NoCacheOp

NextCache ==
    \/ \E p \in Pairs : GetCachedTranscript(p[1], p[2])
    \/ \E p \in Pairs, transcript \in Transcripts : SaveTranscriptCache(p[1], p[2], transcript)
    \/ \E sessionId \in SessionIds, createTime \in CreateTimes,
          force \in BOOLEAN, workerFile \in BOOLEAN :
            TranscribeWithCache(1, sessionId, createTime, force, workerFile, TRUE)
    \/ WorkerPartial(1)
    \/ \E text \in Transcripts : WorkerFinal(1, text)
    \/ WorkerErrorMessage(1)
    \/ WorkerFault(1)
    \/ \E code \in ExitCodes : WorkerExit(1, code)

SpecCache == InitCacheStore /\ [][NextCache]_vars

\* The model store on its own: getModelStatus and clearModel over every
\* content of the model directory, files left half written included.
InitStore ==
    /\ sttModelType \in ModelTypes
    /\ dirExists \in BOOLEAN
    /\ fileState \in [ Files -> { "absent", "partial", "complete" } ]
    /\ ~dirExists => fileState = NoFiles
    /\ InitDownload /\ InitCache /\ InitCalls /\ InitSolo

NextStore ==
    \/ \E statOk \in BOOLEAN : Observed(GetModelStatus(statOk))
    \/ \E emptied \in BOOLEAN, failAt \in Files \cup { "none" } :
          Observed(ClearModelCall(emptied, failAt))
    \/ \E v \in ModelTypes : SetModelType(v)

SpecStore == InitStore /\ [][NextStore]_vars

\* The public operations called one after the other, every step of which can
\* fail: mkdirSync, the transfers, the unlink calls of the catch block and of
\* clearModel, statSync, new Worker(...) and the worker itself.
\* An operation starts when no download and no transcription is under way
\* and no worker is left. The configured model type does not change.
Quiet ==
    /\ InFlight = { }
    /\ \A c \in CallIds : calls[c].pc # "waiting" /\ calls[c].worker \in { "none", "exited" }

NextFaults ==
    \/ \E mkdirOk \in BOOLEAN, failAt \in Files \cup { "none" } :
          Quiet /\ dlCalls = << >> /\ DownloadModel(mkdirOk, failAt)
    \/ \E t \in TaskIds : Response200(t, 0)
    \/ \E t \in TaskIds : TransferFinish(t)
    \/ \E t \in TaskIds, failAt \in Files \cup { "none" } : TransferFail(t, failAt)
    \/ \E statOk \in BOOLEAN : Quiet /\ GetModelStatus(statOk) /\ UNCHANGED storeSeen
    \/ \E emptied \in BOOLEAN, failAt \in Files \cup { "none" } :
          Quiet /\ ClearModelCall(emptied, failAt) /\ UNCHANGED storeSeen
    \/ \E sessionId \in SessionIds, createTime \in CreateTimes,
          force \in BOOLEAN, workerFile \in BOOLEAN, spawnOk \in BOOLEAN :
            Quiet /\ TranscribeWithCache(1, sessionId, createTime, force, workerFile, spawnOk)
    \/ WorkerPartial(1)
    \/ \E text \in Transcripts : WorkerFinal(1, text)
    \/ WorkerErrorMessage(1)
    \/ WorkerFault(1)
    \/ \E code \in ExitCodes : WorkerExit(1, code)

SpecFaults == Init /\ [][NextFaults]_vars

\* Model download with the progress reports of its two transfers: every
\* response body arrives in chunks and ends when the file is complete.
\* clearModel can run at any moment; the configured model type stays as it is.
BodyEnd(t) ==
    /\ tasks[t].pc \in { "model_write", "tokens_write" }
    /\ tasks[t].downloaded = FileBytes[TargetPath(tasks[t])]
    /\ TransferFinish(t)

NextProgress ==
    \/ DownloadModel(TRUE, "none")
    \/ \E t \in TaskIds, known \in BOOLEAN : ResponseBody(t, known)
    \/ \E t \in TaskIds, length \in ChunkLengths : ResponseData(t, length)
    \/ \E t \in TaskIds : BodyEnd(t)
    \/ \E t \in TaskIds : TransferFail(t, "none")
    \/ \E emptied \in BOOLEAN : ClearModel(emptied)

\* The first download of an installation: no model file is there yet.
InitProgress == Init /\ fileState = NoFiles

SpecProgress == InitProgress /\ [][NextProgress]_vars

\* The model in use while it is downloaded: getModelStatus and one
\* transcribeWithCache call at any moment of downloadModel calls.
NextInstall ==
    \/ DownloadModel(TRUE, "none")
    \/ \E t \in TaskIds : Response200(t, 0)
    \/ \E t \in TaskIds : TransferFinish(t)
    \/ \E t \in TaskIds : TransferFail(t, "none")
    \/ Observed(GetModelStatus(TRUE))
    \/ \E sessionId \in SessionIds, createTime \in CreateTimes, force \in BOOLEAN :
          TranscribeWithCache(1, sessionId, createTime, force, TRUE, TRUE)
    \/ WorkerPartial(1)
    \/ \E text \in Transcripts : WorkerFinal(1, text)
    \/ WorkerErrorMessage(1)
    \/ WorkerFault(1)
    \/ \E code \in ExitCodes : WorkerExit(1, code)

SpecInstall == Init /\ [][NextInstall]_vars

\* The report service: the timer ticks, the settings page saves schedules and
\* asks for reports, and every awaited call of a generation can fail.
\* The voice service is not used.
InitReports == Init /\ sttModelType = "int8" /\ ~dirExists /\ cacheDb

NextReports ==
    \/ \E enabled \in BOOLEAN, time \in Times, rangeDays \in RangeDays, keepsDate \in BOOLEAN :
          SetSchedule(ScheduleInput(enabled, time, rangeDays, keepsDate))
    \/ \E override \in { 0, 7 } : RunNow(override)
    \/ \E now \in NowTimes : Tick(now)
    \/ \E r \in RunIds, outcome \in { "failure", "empty", "some", "throws" } :
          MessagesResult(r, outcome)
    \/ \E r \in RunIds, ok \in BOOLEAN, writeOk \in BOOLEAN : SessionsResult(r, ok, writeOk)
    \/ \E r \in RunIds, ok \in BOOLEAN, writeOk \in BOOLEAN : ChatResult(r, ok, writeOk)
    \/ NextDay

SpecReports == InitReports /\ [][NextReports]_vars

\* One streamChat call over every stream of deltas. The voice service is not used.
NextStream ==
    \/ StreamChat
    \/ \E reasoning \in Texts \cup { "" }, content \in Texts \cup { "" } :
          StreamDelta(reasoning, content)
    \/ StreamEnd
    \/ StreamThrows

SpecStream == InitReports /\ [][NextStream]_vars

\* One downloadToFile call against every server behaviour.
NextTransfer ==
    \/ StartTransfer
    \/ ResponseRedirect
    \/ ResponseStatus
    \/ ResponseOk
    \/ \E length \in ChunkLengths : DataChunk(length)
    \/ WriterFinish
    \/ RequestError
    \/ StreamError

SpecTransfer == Init /\ [][NextTransfer]_vars

\* Transcription with a worker script that keeps its message protocol:
\* partial messages, then one final or error message and nothing after it.
\* The thread can still fail: an uncaught fault, or an exit with a nonzero
\* code before the terminal message.
ProtocolPartial(c) == calls[c].worker = "running" /\ PostPartial(c, MaxStream)
ProtocolFinal(c, text) == calls[c].worker = "running" /\ WorkerFinal(c, text)
ProtocolError(c) == calls[c].worker = "running" /\ WorkerErrorMessage(c)
ProtocolFault(c) == calls[c].worker = "running" /\ WorkerFault(c)
ProtocolExit(c, code) == (calls[c].worker = "running" => code # 0) /\ WorkerExit(c, code)

NextProtocol ==
    \/ \E c \in CallIds, sessionId \in SessionIds, createTime \in CreateTimes,
          force \in BOOLEAN, workerFile \in BOOLEAN :
            TranscribeWithCache(c, sessionId, createTime, force, workerFile, TRUE)
    \/ \E c \in CallIds : ProtocolPartial(c)
    \/ \E c \in CallIds, text \in Transcripts : ProtocolFinal(c, text)
    \/ \E c \in CallIds : ProtocolError(c)
    \/ \E c \in CallIds : ProtocolFault(c)
    \/ \E c \in CallIds, code \in ExitCodes : ProtocolExit(c, code)

SpecProtocol == Init /\ [][NextProtocol]_vars

----------------------------------------------------------------------------
\* Claims about transcribeWithCache and transcribeWavBuffer (SpecTranscribe).

Started(c) == calls[c].pc # "idle"
Returned(c) == calls[c].pc = "returned"

DispatchErrors ==
    { << "model_missing" >>, << "tokens_missing" >>, << "worker_missing" >>, << "exception" >> }

\* C3: a call with force=true never reads the cache and always goes through
\* the dispatcher: the model files are checked, a worker is spawned when the
\* files are present, and the result carries cached: false.
C3_ForceBypassesCache ==
    \A c \in CallIds :
        Started(c) /\ calls[c].force =>
            /\ ~calls[c].cacheRead
            /\ calls[c].modelChecked
            /\ calls[c].worker = "none" => Returned(c) /\ calls[c].ret.error \in DispatchErrors
            /\ calls[c].modelAtCall /\ calls[c].tokensAtCall =>
                 calls[c].worker # "none"
                   \/ calls[c].ret.error \in { << "worker_missing" >>, << "exception" >> }
            /\ Returned(c) => calls[c].ret.cached = FALSE

\* C3 witness: a force=true call made while the cache held an entry for the
\* pair spawned a worker.
C3_Witness ==
    \E c \in CallIds :
        calls[c].force /\ Truthy(calls[c].rowAtCall) /\ calls[c].worker # "none"

\* The step in which call c returns.
Returns(c) == calls[c].pc # "returned" /\ calls'[c].pc = "returned"

\* C4: a call that ends in failure leaves the transcript cache as it was:
\* the only step of a call that changes the table is a successful return.
C4_FailureLeavesCache ==
    [][ \A c \in CallIds :
          calls'[c] # calls[c] /\ ~(Returns(c) /\ calls'[c].ret.success) =>
              transcript_cache' = transcript_cache ]_vars

\* C4 witness: a force=true call whose worker failed has returned and the
\* older entry of its pair is still in the table.
C4_Witness ==
    \E c \in CallIds :
        /\ Returned(c) /\ calls[c].force /\ ~calls[c].ret.success
        /\ calls[c].worker # "none"
        /\ Truthy(calls[c].rowAtCall)
        /\ SelectTranscript(getCacheKey(calls[c].sessionId, calls[c].createTime))
             = { calls[c].rowAtCall }

\* C9: transcribeWavBuffer called while the weights file or the vocabulary
\* file of the current variant is absent resolves at once with a
\* model-missing failure and creates no worker.
C9_MissingModelFailsFast ==
    \A c \in CallIds :
        calls[c].modelChecked /\ ~(calls[c].modelAtCall /\ calls[c].tokensAtCall) =>
            /\ Returned(c)
            /\ calls[c].promise = Failure(IF ~calls[c].modelAtCall
                                            THEN << "model_missing" >>
                                            ELSE << "tokens_missing" >>)
            /\ calls[c].worker = "none"

\* C9 witness: the weights file was present and the vocabulary file absent.
C9_Witness ==
    \E c \in CallIds :
        calls[c].modelChecked /\ calls[c].modelAtCall /\ ~calls[c].tokensAtCall

\* The result the first terminal signal of a worker stands for.
ResultOf(signal) ==
    CASE signal.kind = "final" -> Success(signal.text)
      [] signal.kind = "error" -> Failure(<< "worker_error" >>)
      [] signal.kind = "fault" -> Failure(<< "worker_fault" >>)
      [] signal.kind = "exit"  -> Failure(<< "worker_exit", signal.code >>)

\* C10: the promise of a call with a worker is pending until the first
\* terminal signal (final, error, fault, nonzero exit) and from then on holds
\* the result of that signal, whatever signals follow.
C10_FirstTerminalSignalWins ==
    \A c \in CallIds :
        calls[c].worker # "none" =>
            IF calls[c].first = NoSignal
              THEN ~calls[c].promise.settled /\ calls[c].pc = "waiting"
              ELSE /\ calls[c].promise = ResultOf(calls[c].first)
                   /\ Returned(c)
                   /\ calls[c].ret.success = calls[c].promise.success
                   /\ calls[c].ret.transcript = calls[c].promise.transcript
                   /\ calls[c].ret.error = calls[c].promise.error

\* C10 witness: the first terminal signal was final and the terminated worker
\* has since exited with a nonzero code; the call still holds the final result.
C10_Witness ==
    \E c \in CallIds :
        /\ calls[c].first.kind = "final"
        /\ calls[c].worker = "exited" /\ calls[c].exitCode # 0
        /\ calls[c].promise.success

\* C11: once the worker of a call has stopped (the 'exit' event was
\* delivered, with whatever code) the promise of the call is settled.
C11_StoppedWorkerSettled ==
    \A c \in CallIds :
        calls[c].worker = "exited" => calls[c].promise.settled

\* C21: when the first terminal signal of a worker is its fault event or an
\* exit with a nonzero code, the call resolves with success=false and an error
\* made from the fault or from that exit code; when the first terminal signal
\* is a final or error message, a later exit with a nonzero code leaves the
\* result as that message made it.
C21_FaultOrExitFails ==
    \A c \in CallIds :
        /\ calls[c].first.kind = "fault" =>
              /\ calls[c].promise.settled /\ ~calls[c].promise.success
              /\ calls[c].promise.error = << "worker_fault" >>
              /\ Returned(c) /\ ~calls[c].ret.success
        /\ calls[c].first.kind = "exit" =>
              /\ calls[c].worker = "exited" /\ calls[c].exitCode # 0
              /\ calls[c].promise.settled /\ ~calls[c].promise.success
              /\ calls[c].promise.error = << "worker_exit", calls[c].exitCode >>
              /\ Returned(c) /\ ~calls[c].ret.success
        /\ calls[c].first.kind \in { "final", "error" } /\ calls[c].worker = "exited" =>
              /\ calls[c].promise.success = (calls[c].first.kind = "final")
              /\ calls[c].ret.success = (calls[c].first.kind = "final")
              /\ calls[c].ret.error =
                    IF calls[c].first.kind = "final" THEN << >> ELSE << "worker_error" >>

\* C21 witness: one call failed through a nonzero exit that came before any
\* message; another call failed through an error message, its worker then
\* exited with a nonzero code and the error of the message is still the result.
C21_Witness ==
    \E c, d \in CallIds :
        /\ calls[c].first.kind = "exit" /\ calls[c].ret.error = << "worker_exit", 1 >>
        /\ calls[d].first.kind = "error" /\ calls[d].worker = "exited" /\ calls[d].exitCode # 0
        /\ calls[d].ret.error = << "worker_error" >>

\* C22: the step in which a final or error message resolves a call is also
\* the step that requests termination of its worker, and from then on the
\* worker of that call is terminating or has exited, never running.
C22_TerminalMessageTerminates ==
    [][ \A c \in CallIds :
          calls'[c].first.kind \in { "final", "error" } =>
              /\ calls'[c].worker \in { "terminating", "exited" }
              /\ ~calls[c].promise.settled /\ calls'[c].promise.settled =>
                    calls'[c].worker = "terminating" ]_vars

\* C22 witness: a call has returned the result of a final message and its
\* worker, asked to terminate, has not exited yet.
C22_Witness ==
    \E c \in CallIds :
        /\ calls[c].first.kind = "final" /\ Returned(c) /\ calls[c].ret.success
        /\ calls[c].worker = "terminating"

----------------------------------------------------------------------------
\* Claims about the partial messages (SpecProtocol).

----------------------------------------------------------------------------
\* Claims about the transcript cache (SpecCache).

\* The rows the service can reach: none when the store was not opened.
CacheRows == IF cacheDb THEN transcript_cache ELSE { }

RowsOf(rows, p) == { r \in rows : r.session_id = p[1] /\ r.create_time = p[2] }

\* C14: when the store could not be opened the cache stays disabled for the
\* life of the service: getCachedTranscript returns null, no call changes the
\* table, and every transcribeWithCache call goes to the dispatcher and
\* returns its result, the result of the worker, with cached: false.
C14_DisabledCacheStaysOff ==
    [][ ~cacheDb =>
          /\ ~cacheDb'
          /\ transcript_cache' = transcript_cache
          /\ cacheOp'.op = "getCachedTranscript" => cacheOp'.result = Undefined
          /\ \A c \in CallIds :
                calls'[c].pc # "idle" =>
                  /\ calls'[c].modelChecked
                  /\ calls'[c].worker # "none" /\ calls'[c].first # NoSignal =>
                        calls'[c].promise = ResultOf(calls'[c].first)
                  /\ calls'[c].pc = "returned" =>
                        calls'[c].ret = [ success |-> calls'[c].promise.success,
                                          transcript |-> calls'[c].promise.transcript,
                                          error |-> calls'[c].promise.error,
                                          cached |-> FALSE ] ]_vars

\* C14 witness: the store is closed, its file holds a row for the pair; a
\* direct lookup of the pair was made, and a force=false call for the pair
\* has returned the transcript of its worker.
C14_Witness ==
    /\ ~cacheDb
    /\ cacheOp.op = "getCachedTranscript"
    /\ Returned(1) /\ ~calls[1].force /\ calls[1].ret.success /\ Truthy(calls[1].ret.transcript)
    /\ cacheOp.sessionId = calls[1].sessionId /\ cacheOp.createTime = calls[1].createTime
    /\ SelectTranscript(getCacheKey(calls[1].sessionId, calls[1].createTime)) # { }
    /\ saved[<< calls[1].sessionId, calls[1].createTime >>] # Undefined

----------------------------------------------------------------------------
\* Claims about the model store (SpecStore).

\* C18: when clearModel has returned success, none of the model files of any
\* variant existed at that moment, whatever subset existed before; it returns
\* success also when files, or the whole directory, were absent before.
C18_ClearLeavesNoFile ==
    storeOp.op = "clearModel" =>
        /\ storeOp.success => \A f \in Files : storeSeen.after[f] = "absent"
        /\ (~storeSeen.seen.dir \/ storeSeen.seen.files = NoFiles) => storeOp.success

\* C18 witness: a successful clearModel call that found the float32 weights
\* and the vocabulary, and no int8 weights.
C18_Witness ==
    /\ storeOp.op = "clearModel" /\ storeOp.success
    /\ storeSeen.seen.files["model.int8.onnx"] = "absent"
    /\ storeSeen.seen.files["model.onnx"] # "absent"
    /\ storeSeen.seen.files["tokens.txt"] # "absent"

\* C19: a getModelStatus call that returns a status reports exists=true
\* exactly when the weights file and the vocabulary file of the current
\* variant both exist, and a result carries sizeBytes, the sum of the sizes
\* of the two files, only when it reports exists=true.
C19_StatusMatchesFiles ==
    storeOp.op = "getModelStatus" =>
        LET model == SENSEVOICE_MODELS[storeSeen.seen.type]
            both == /\ storeSeen.seen.files[model.model] # "absent"
                    /\ storeSeen.seen.files[model.tokens] # "absent"
            size(f) == IF storeSeen.seen.files[f] = "complete" THEN FileBytes[f] ELSE 1
        IN  /\ storeOp.exists => both
            /\ storeOp.success => (storeOp.exists <=> both)
            /\ storeOp.hasSize <=> storeOp.exists
            /\ storeOp.hasSize => storeOp.sizeBytes = size(model.model) + size(model.tokens)

\* C19 witness: the weights were present and the vocabulary absent, and the
\* call reported exists=false without a size.
C19_Witness ==
    /\ storeOp.op = "getModelStatus" /\ storeOp.success /\ ~storeOp.exists
    /\ storeSeen.seen.files[SENSEVOICE_MODELS[storeSeen.seen.type].model] = "complete"
    /\ storeSeen.seen.files["tokens.txt"] = "absent"

----------------------------------------------------------------------------
\* Claims about the failures of the public operations (SpecFaults).

----------------------------------------------------------------------------
\* Claims about downloadToFile (SpecTransfer).

\* C16: while every request is answered and every response is a redirect
\* with a Location header, the call follows each of the first
\* DefaultRedirects redirects with one new request and is rejected with
\* too-many-redirects by the next one, without a further request; it is
\* rejected with that error in no other way.
C16_RedirectBudget ==
    /\ xfer.requests <= DefaultRedirects + 1
    /\ xfer.responses > 0 /\ xfer.redirects = xfer.responses /\ xfer.error # "network" =>
          IF xfer.responses <= DefaultRedirects
            THEN /\ xfer.pc = "request"
                 /\ xfer.followed = xfer.responses
                 /\ xfer.requests = xfer.responses + 1
            ELSE /\ xfer.pc = "rejected" /\ xfer.error = "too_many_redirects"
                 /\ xfer.followed = DefaultRedirects
                 /\ xfer.requests = DefaultRedirects + 1
    /\ xfer.error = "too_many_redirects" =>
          xfer.redirects = xfer.responses /\ xfer.followed = DefaultRedirects

\* C16 witness: the call was rejected by a redirect.
C16_Witness ==
    /\ xfer.pc = "rejected" /\ xfer.error = "too_many_redirects"
    /\ xfer.redirects = xfer.responses

\* C17: the downloaded-byte values passed to onProgress never decrease, and
\* when the transfer has resolved the last reported value is the number of
\* bytes of the target file.
C17_ProgressMonotone ==
    /\ \A i, j \in 1 .. Len(xfer.reports) : i <= j => xfer.reports[i] <= xfer.reports[j]
    /\ xfer.pc = "resolved" /\ xfer.reports # << >> =>
          xfer.reports[Len(xfer.reports)] = xfer.fileBytes

\* C17 witness: a transfer resolved after a chunk of two bytes, then one of
\* one byte, behind a redirect.
C17_Witness ==
    /\ xfer.pc = "resolved" /\ xfer.followed > 0
    /\ xfer.reports = << 2, 3 >>

----------------------------------------------------------------------------
\* Claims about the progress reports of downloadModel (SpecProgress).

\* The expected total size of the variant a report is about.
ExpectedSize(report) == SENSEVOICE_MODELS[tasks[report.task].variant].sizeBytes

\* C23 as stated: in a report of the vocabulary phase, percent is
\* (bytes of the weights file + vocabulary bytes so far) / expected size * 100.
C23_PercentIsByteRatio ==
    progress.phase = "tokens" =>
        /\ progress.percent.defined
        /\ progress.percent.num * ExpectedSize(progress)
             = (progress.modelSize + progress.downloaded) * 100 * progress.percent.den

\* C23 amended: a report of the vocabulary phase carries, as downloadedBytes,
\* the bytes of the weights file plus the vocabulary bytes so far and, as
\* totalBytes, the expected size of the variant; its percent is
\* 60 + 40 * (vocabulary bytes so far / content-length of the vocabulary
\* response), a value from 60 to 100, or 60 when there is no content-length.
C23_PercentIsPhaseShare ==
    [][ progress' # progress /\ progress'.phase = "tokens" =>
          LET task == tasks[progress'.task]
              d == tasks'[progress'.task].downloaded
              m == CASE fileState[task.modelPath] = "absent" -> 0
                     [] fileState[task.modelPath] = "partial" -> 1
                     [] OTHER -> FileBytes[task.modelPath]
              percent == progress'.percent
          IN  /\ task.pc = "tokens_write"
              /\ progress'.downloadedBytes = m + d
              /\ progress'.totalBytes = SENSEVOICE_MODELS[task.variant].sizeBytes
              /\ percent.defined
              /\ IF task.total # 0
                    THEN percent.num * task.total = (60 * task.total + 40 * d) * percent.den
                    ELSE percent.num = 60 * percent.den
              /\ 60 * percent.den <= percent.num /\ percent.num <= 100 * percent.den ]_vars

\* C23 witness: half of the vocabulary file has arrived, the weights file is
\* complete on disk and the report says 80 percent.
C23_Witness ==
    /\ progress.phase = "tokens" /\ progress.total = 2 /\ progress.downloaded = 1
    /\ progress.modelSize = FileBytes[tasks[progress.task].modelPath]
    /\ progress.downloadedBytes = progress.modelSize + 1
    /\ progress.percent.defined /\ progress.percent.num = 80 * progress.percent.den

\* C27: every onProgress invocation goes to the downloadModel call that
\* started the reporting task; the onProgress of a call that joined an
\* in-flight download is never invoked.
C27_OnlyStarterNotified ==
    /\ \A i \in notified :
          i \in 1 .. Len(dlCalls) /\ dlCalls[i].started
    /\ \A i \in 1 .. Len(dlCalls) : ~dlCalls[i].started => i \notin notified
    /\ progress.phase # "none" =>
          dlCalls[progress.to].started /\ dlCalls[progress.to].task = progress.task

\* C27 witness: a call joined a download whose starter was given progress
\* reports; the download has finished with success, which is the result of
\* the joining call too, and the onProgress of the joining call was not invoked.
C27_Witness ==
    \E i, j \in 1 .. Len(dlCalls) :
        /\ dlCalls[i].started /\ ~dlCalls[j].started /\ dlCalls[j].task = dlCalls[i].task
        /\ i \in notified /\ j \notin notified
        /\ Finished(dlCalls[j].task) /\ tasks[dlCalls[j].task].result.success
        /\ progress.phase = "tokens" /\ progress.task = dlCalls[j].task

----------------------------------------------------------------------------
\* Claims about the model in use while it is downloaded (SpecInstall).

\* C24: getModelStatus reports exists=true only when both files of the
\* configured variant are completely written, and transcribeWavBuffer starts
\* a worker only in a state where both are completely written.
C24_OnlyCompleteModelUsed ==
    [][ /\ storeOp'.op = "getModelStatus" /\ storeOp'.exists =>
              LET seen == storeSeen'.seen
                  model == SENSEVOICE_MODELS[seen.type]
              IN  seen.files[model.model] = "complete" /\ seen.files[model.tokens] = "complete"
        /\ \A c \in CallIds :
              calls[c].worker = "none" /\ calls'[c].worker = "running" =>
                  /\ fileState[getCurrentModel.model] = "complete"
                  /\ fileState[getCurrentModel.tokens] = "complete" ]_vars

----------------------------------------------------------------------------
\* Claims about downloadModel (SpecDownload).

\* C5: while a download is in flight a further downloadModel call starts no
\* task of its own and is given the promise of the in-flight task, and at no
\* instant are two tasks transferring.
C5_SingleFlight ==
    /\ Cardinality(InFlight) <= 1
    /\ \A i \in 1 .. Len(dlCalls) :
         dlCalls[i].inflight # { } =>
             ~dlCalls[i].started /\ dlCalls[i].task \in dlCalls[i].inflight

\* C5 witness: a call joined an in-flight download, which has since finished
\* with success: the joining call holds that result.
C5_Witness ==
    \E i \in 1 .. Len(dlCalls) :
        /\ dlCalls[i].inflight # { }
        /\ Finished(dlCalls[i].task) /\ tasks[dlCalls[i].task].result.success

\* C6: once a download task has finished (success, failure or exception at
\* any step) the in-flight registry no longer holds it.
C6_RegistryEmptiedOnFinish ==
    \A t \in TaskIds : Finished(t) => downloadTasks # t

\* C7: when a download has resolved with success=false, neither the weights
\* file nor the vocabulary file of the variant it was downloading existed at
\* that moment.
C7_FailureLeavesNoFile ==
    \A t \in TaskIds :
        Finished(t) /\ ~tasks[t].result.success =>
            /\ tasks[t].atEnd[SENSEVOICE_MODELS[tasks[t].variant].model] = "absent"
            /\ tasks[t].atEnd[SENSEVOICE_MODELS[tasks[t].variant].tokens] = "absent"

\* C8: when a download has resolved with success=true, the two files named in
\* its result existed at that moment.
C8_SuccessHasBothFiles ==
    \A t \in TaskIds :
        Finished(t) /\ tasks[t].result.success =>
            /\ tasks[t].atEnd[tasks[t].result.modelPath] # "absent"
            /\ tasks[t].atEnd[tasks[t].result.tokensPath] # "absent"

\* The step in which task t fails: its promise resolves with success=false.
Fails(t) ==
    /\ tasks[t].pc \in Transferring
    /\ tasks'[t].result.settled /\ ~tasks'[t].result.success

\* C25: when the configured model type was changed while a download was in
\* flight and the download then fails, the two files it was writing (those of
\* the variant configured when it started) are absent after the failure.
C25_CleanupOfStartedVariant ==
    [][ \A t \in TaskIds :
          Fails(t) /\ sttModelType # tasks[t].variant =>
              /\ fileState'[tasks[t].modelPath] = "absent"
              /\ fileState'[tasks[t].tokensPath] = "absent" ]_vars

\* C26: when a download fails before it has written the vocabulary file
\* (the configured model type being the one it started with), a model of
\* the other variant that was complete on disk, weights and tokens.txt, is
\* still complete after the failure.
C26_OtherVariantKept ==
    [][ \A t \in TaskIds, v \in ModelTypes :
          /\ Fails(t) /\ tasks[t].pc \in { "model_req", "model_write" }
          /\ sttModelType = tasks[t].variant /\ v # tasks[t].variant
          /\ fileState[SENSEVOICE_MODELS[v].model] = "complete"
          /\ fileState[SENSEVOICE_MODELS[v].tokens] = "complete"
          => /\ fileState'[SENSEVOICE_MODELS[v].model] = "complete"
             /\ fileState'[SENSEVOICE_MODELS[v].tokens] = "complete" ]_vars

----------------------------------------------------------------------------
\* Claims about AssistantReportService (SpecReports).

\* C28: at most one report generation is in progress and the running flag
\* is set exactly while one is; a call that arrives while a generation is in
\* progress is a runNow call that gets success=false ("busy") and starts
\* nothing; the flag is cleared when the generation ends, however it ends.
C28_OneGenerationAtATime ==
    [][ /\ Cardinality(Generating') <= 1
        /\ running' = (Generating' # { })
        /\ \A r \in RunIds :
              runs[r].kind = "none" /\ runs'[r].kind # "none" /\ Generating # { } =>
                  /\ runs'[r].kind = "runNow" /\ runs'[r].result = "busy"
                  /\ Generating' = Generating
        /\ \A r \in Generating : runs'[r].pc = "done" =>
              ~running' /\ runs'[r].result \in { "success", "failure", "exception" } ]_vars

\* C28 witness: a scheduled generation ended with an exception, a runNow
\* call made while it was in progress was refused, and the flag is cleared.
C28_Witness ==
    \E r, q \in RunIds :
        /\ runs[r].kind = "tick" /\ runs[r].result = "exception"
        /\ runs[q].kind = "runNow" /\ runs[q].result = "busy"
        /\ ~running

\* C29: when setSchedule was called while a scheduled generation was in
\* progress, the write at the end of the tick leaves the stored schedule as
\* it was last saved, but for lastRunDate, which becomes the day of the tick.
C29_TickKeepsSavedSchedule ==
    [][ \A r \in Generating :
          runs[r].kind = "tick" /\ runs[r].resaved /\ runs'[r].pc = "done" =>
              assistantSchedule' = [ assistantSchedule EXCEPT !.lastRunDate = runs[r].today ] ]_vars

----------------------------------------------------------------------------
\* Claims about BaseAIProvider.streamChat (SpecStream).

\* The markers open after the first k chunks: the '<think>' markers among
\* them less the '</think>' markers.
Opened(k) == Cardinality({ i \in 1 .. k : chat.out[i] = Marker("<think>") })
Closed(k) == Cardinality({ i \in 1 .. k : chat.out[i] = Marker("</think>") })

\* C30: in the chunks emitted so far the markers alternate, '<think>' first;
\* a reasoning text comes with one marker open and a content text with none
\* open; when the call has returned every '<think>' has its '</think>'.
C30_ThinkMarkersBalanced ==
    /\ \A k \in 1 .. Len(chat.out) :
          /\ Closed(k) <= Opened(k) /\ Opened(k) <= Closed(k) + 1
          /\ chat.out[k].from = "reasoning" => Opened(k) = Closed(k) + 1
          /\ chat.out[k].from = "content" => Opened(k) = Closed(k)
    /\ chat.pc = "returned" => Opened(Len(chat.out)) = Closed(Len(chat.out))

\* C30 witness: reasoning, content, then reasoning again up to the end of the
\* stream: the second '<think>' was closed when the call returned.
C30_Witness ==
    /\ chat.pc = "returned"
    /\ chat.out = << Marker("<think>"), Text("a", "reasoning"), Marker("</think>"),
                     Text("</think>", "content"),
                     Marker("<think>"), Text("a", "reasoning"), Marker("</think>") >>

====
